---------------------------- MODULE Spec2Model ----------------------------
(***************************************************************************)
(* A model of the daily meal notifier (daily_meal_notifier.py and          *)
(* public/utils/text_utils.py).                                            *)
(*                                                                         *)
(*   SpecWeek  get_week_range as a function of the date                    *)
(*   SpecMeal  get_today_meal as a function of the date and of what the    *)
(*             document store answers                                      *)
(*   Spec      the process: module initialisation, main(), the scheduler   *)
(*             loop, send_daily_meal and send_telegram_message             *)
(*   FairSpec  Spec with the fairness of a single running thread           *)
(*                                                                         *)
(* Time is counted in minutes of wall clock (the loop sleeps 60 s).  The   *)
(* host clock is taken to be the America/Los_Angeles clock.  Strings are   *)
(* sequences of tokens; a recipe-id list is a sequence of characters.      *)
(***************************************************************************)
EXTENDS Integers, Sequences, FiniteSets, TLC

VARIABLES
    wkDate,        \* SpecWeek: the date given to get_week_range
    wkKey,         \* SpecWeek: the key it returned (empty before the call)
    mealIn,        \* SpecMeal: today and the store's answers
    mealOut,       \* SpecMeal: what get_today_meal did
    pc,            \* Spec: position of the process
    firebaseEnv,   \* Spec: FIREBASE_SERVICE_ACCOUNT_BASE64
    tokenEnv,      \* Spec: TELEGRAM_BOT_TOKEN
    now,           \* Spec: wall clock, minutes since 00:00 of the start day
    next_run,      \* Spec: the scheduled job's next_run (-1: no job yet)
    last_run,      \* Spec: the scheduled job's last_run (-1: None)
    registered,    \* Spec: history, the time the job was registered (-1)
    runs,          \* Spec: history, the start and end time of every job run
    lastCheck,     \* Spec: history, the time of the latest due-check (-1: none)
    sends,         \* Spec: the send_telegram_message calls since the latest due-check
    log,           \* Spec: the log entries since the latest due-check
    job            \* Spec: what the send_daily_meal of this tick did

vars == <<wkDate, wkKey, mealIn, mealOut, pc, firebaseEnv, tokenEnv, now,
          next_run, last_run, registered, runs, lastCheck, sends, log, job>>

weekVars == <<wkDate, wkKey>>
mealVars == <<mealIn, mealOut>>
procVars == <<pc, firebaseEnv, tokenEnv, now, next_run, last_run, registered,
              runs, lastCheck, sends, log, job>>

(***************************************************************************)
(* Bounds                                                                  *)
(***************************************************************************)
\* number of consecutive dates get_week_range is applied to
WeekDates == 420
\* number of consecutive dates get_today_meal is applied to
MealDates == 2
\* longest weekday entry (characters) of a meal-plan document
MaxEntryLen == 4
\* days the process is followed for; the clock stops at their end
MaxDays == 2

(***************************************************************************)
(* Dates: datetime's proleptic Gregorian calendar                          *)
(***************************************************************************)
MonthName == <<"January", "February", "March", "April", "May", "June", "July",
               "August", "September", "October", "November", "December">>

DayName == <<"Monday", "Tuesday", "Wednesday", "Thursday", "Friday",
             "Saturday", "Sunday">>

IsLeap(y) == y % 4 = 0 /\ (y % 100 # 0 \/ y % 400 = 0)

DaysInMonth(y, m) ==
    IF m = 2 THEN (IF IsLeap(y) THEN 29 ELSE 28)
    ELSE IF m \in {4, 6, 9, 11} THEN 30 ELSE 31

DaysBeforeYear(y) ==
    (y - 1) * 365 + (y - 1) \div 4 - (y - 1) \div 100 + (y - 1) \div 400

RECURSIVE DaysBeforeMonth(_, _)
DaysBeforeMonth(y, m) ==
    IF m = 1 THEN 0 ELSE DaysBeforeMonth(y, m - 1) + DaysInMonth(y, m - 1)

\* date.toordinal(): January 1 of year 1 is day 1
ToOrdinal(d) == DaysBeforeYear(d.year) + DaysBeforeMonth(d.year, d.month) + d.day

DI4Y == 4 * 365 + 1
DI100Y == 25 * DI4Y - 1
DI400Y == 4 * DI100Y + 1

\* date.fromordinal(): the 400/100/4/1-year cycles of the calendar
FromOrdinal(ord) ==
    LET n0   == ord - 1
        n400 == n0 \div DI400Y
        r400 == n0 % DI400Y
        n100 == r400 \div DI100Y
        r100 == r400 % DI100Y
        n4   == r100 \div DI4Y
        r4   == r100 % DI4Y
        n1   == r4 \div 365
        r1   == r4 % 365
        y    == n400 * 400 + 1 + n100 * 100 + n4 * 4 + n1
    IN  IF n1 = 4 \/ n100 = 4
        THEN [year |-> y - 1, month |-> 12, day |-> 31]
        ELSE LET m == CHOOSE k \in 1..12 :
                          /\ DaysBeforeMonth(y, k) <= r1
                          /\ r1 < DaysBeforeMonth(y, k) + DaysInMonth(y, k)
             IN  [year |-> y, month |-> m, day |-> r1 - DaysBeforeMonth(y, m) + 1]

\* date - timedelta(days) and date + timedelta(days)
MinusDays(d, k) == FromOrdinal(ToOrdinal(d) - k)
PlusDays(d, k) == FromOrdinal(ToOrdinal(d) + k)

\* date.weekday(): Monday is 0, Sunday is 6
Weekday(d) == (ToOrdinal(d) + 6) % 7

\* strftime('%A')
FormatDayName(d) == DayName[Weekday(d) + 1]

\* '%d': the day of the month as two digits
Pad2(k) == IF k < 10 THEN "0" \o ToString(k) ELSE ToString(k)

\* strftime('%B %d, %Y'), as the tokens of the string: "March 12, 2025"
FormatDate(d) == <<MonthName[d.month], " ", Pad2(d.day), ", ", ToString(d.year)>>

(***************************************************************************)
(* get_week_range                                                          *)
(***************************************************************************)
\* get_week_range with date.isoweekday() for date.weekday()
get_week_range_isoweekday(date) ==
    LET start_of_week == MinusDays(date, ((ToOrdinal(date) + 6) % 7) + 1)
        end_of_week   == PlusDays(start_of_week, 6)
    IN  FormatDate(start_of_week) \o <<" - ">> \o FormatDate(end_of_week)

get_week_range(date) ==
    LET start_of_week == MinusDays(date, Weekday(date))
        end_of_week   == PlusDays(start_of_week, 6)
    IN  FormatDate(start_of_week) \o <<" - ">> \o FormatDate(end_of_week)

\* Wednesday, March 12, 2025: the day the process is started on
StartDate == [year |-> 2025, month |-> 3, day |-> 12]

\* Monday, February 19, 2024: the first date get_week_range is applied to
FirstWeekDate == [year |-> 2024, month |-> 2, day |-> 19]

WeekDateRange ==
    {FromOrdinal(o) : o \in ToOrdinal(FirstWeekDate)..(ToOrdinal(FirstWeekDate) + WeekDates - 1)}

NoKey == <<>>

\* the values the other specifications' variables rest at
IdleMeal ==
    /\ mealIn = [today |-> StartDate, plan |-> "absent", entryKind |-> "missing",
                 entry |-> <<>>, a |-> "absent", b |-> "absent", empty |-> "absent"]
    /\ mealOut = [called |-> FALSE, raised |-> FALSE, ret |-> <<>>, logs |-> <<>>,
                  planKey |-> <<>>, fetched |-> <<>>, exc |-> "none"]

IdleProc ==
    /\ pc = "off"
    /\ firebaseEnv = "valid"
    /\ tokenEnv = "valid"
    /\ now = 0
    /\ next_run = -1
    /\ last_run = -1
    /\ registered = -1
    /\ runs = <<>>
    /\ lastCheck = -1
    /\ sends = <<>>
    /\ log = <<>>
    /\ job = [ran |-> FALSE, raised |-> FALSE]

IdleWeek ==
    /\ wkDate = StartDate
    /\ wkKey = NoKey

InitWeek ==
    /\ wkDate \in WeekDateRange
    /\ wkKey = NoKey
    /\ IdleMeal
    /\ IdleProc

\* one call get_week_range(wkDate)
ApplyWeekRange ==
    /\ wkKey = NoKey
    /\ wkKey' = get_week_range(wkDate)
    /\ UNCHANGED <<wkDate, mealVars, procVars>>

NextWeek == ApplyWeekRange

SpecWeek == InitWeek /\ [][NextWeek]_vars

(***************************************************************************)
(* C7                                                                      *)
(***************************************************************************)
\* the date a formatted date names
ParseDate(t) ==
    [year  |-> CHOOSE y \in 2023..2026 : ToString(y) = t[5],
     month |-> CHOOSE m \in 1..12 : MonthName[m] = t[1],
     day   |-> CHOOSE k \in 1..31 : Pad2(k) = t[3]]

KeyStart(key) == ParseDate(SubSeq(key, 1, 5))
KeyEnd(key) == ParseDate(SubSeq(key, 7, 11))

\* the Monday-to-Sunday week a date lies in, counted from Monday, January 1
\* of year 1 (ordinal 1)
WeekIndex(d) == (ToOrdinal(d) - 1) \div 7

\* C7: get_week_range(D) is the key of a Monday start and a Sunday end, the
\* start the most recent Monday on or before D and the end six days later, so
\* that the seven-day span contains D; the dates of D's Monday-Sunday week,
\* and no others, yield the same key.  March 12, 2025 yields
\* "March 10, 2025 - March 16, 2025".
C7_WeekRange ==
    wkKey # NoKey =>
        LET s == KeyStart(wkKey)
            e == KeyEnd(wkKey)
        IN  /\ Len(wkKey) = 11
            /\ wkKey = FormatDate(s) \o <<" - ">> \o FormatDate(e)
            /\ (ToOrdinal(s) - 1) % 7 = 0
            /\ ToOrdinal(e) = ToOrdinal(s) + 6
            /\ ToOrdinal(e) - ToOrdinal(s) + 1 = 7
            /\ ToOrdinal(s) <= ToOrdinal(wkDate)
            /\ ToOrdinal(wkDate) <= ToOrdinal(e)
            /\ \A x \in WeekDateRange :
                   (get_week_range(x) = wkKey) <=> (WeekIndex(x) = WeekIndex(wkDate))
            /\ (wkDate = StartDate =>
                   wkKey = <<"March", " ", "10", ", ", "2025", " - ",
                             "March", " ", "16", ", ", "2025">>)

\* a Sunday whose week started in the year before: December 30, 2024 to
\* January 5, 2025
C7_Witness ==
    /\ wkDate = [year |-> 2025, month |-> 1, day |-> 5]
    /\ wkKey = <<"December", " ", "30", ", ", "2024", " - ",
                 "January", " ", "05", ", ", "2025">>

(***************************************************************************)
(* get_today_meal                                                          *)
(*                                                                         *)
(* The store is given by its answers.  mealIn.plan answers the fetch of    *)
(* the week's meal-plan document ("raise", "absent", "present");           *)
(* entryKind/entry is the document's field of today's weekday ("missing",  *)
(* "nonstring", or "string" with the characters in entry); a, b and empty  *)
(* answer the fetch of the recipes "a", "b" and "" (every other id is      *)
(* absent).  Emoji are written by code point.                              *)
(***************************************************************************)
Alphabet == {"a", "b", ","}

Entries == UNION {[1..n -> Alphabet] : n \in 0..MaxEntryLen}

RecipeA == [name |-> "Oatmeal", ingredients |-> <<"oats", "milk">>]
RecipeB == [name |-> "Toast", ingredients |-> <<"bread">>]

\* recipe_ref.get() and recipe.to_dict() for one recipe id
RecipeGet(st, recipe_id) ==
    LET none == [st |-> "absent", hasName |-> FALSE, hasIngredients |-> FALSE,
                 name |-> "", ingredients |-> <<>>]
    IN  IF recipe_id = <<"a">>
        THEN [st |-> IF st.a \in {"raise", "absent"} THEN st.a ELSE "exists",
              hasName |-> st.a # "noname",
              hasIngredients |-> st.a # "noingredients",
              name |-> RecipeA.name, ingredients |-> RecipeA.ingredients]
        ELSE IF recipe_id = <<"b">>
        THEN [st |-> IF st.b \in {"raise", "absent"} THEN st.b ELSE "exists",
              hasName |-> TRUE,
              hasIngredients |-> TRUE,
              name |-> RecipeB.name,
              ingredients |-> IF st.b = "noitems" THEN <<>> ELSE RecipeB.ingredients]
        ELSE IF recipe_id = <<>>
        THEN [none EXCEPT !.st = st.empty]
        ELSE none

\* str.split(','): k commas give k + 1 parts, empty parts included
RECURSIVE Split(_)
Split(s) ==
    IF \A i \in 1..Len(s) : s[i] # ","
    THEN <<s>>
    ELSE LET i == CHOOSE k \in 1..Len(s) :
                      s[k] = "," /\ \A j \in 1..(k - 1) : s[j] # ","
         IN  <<SubSeq(s, 1, i - 1)>> \o Split(SubSeq(s, i + 1, Len(s)))

\* line 67 without the test of the first element
NoMealPlannedLenOnly(recipe_ids) == recipe_ids = <<>>

\* if not recipe_ids or recipe_ids[0] == ''
NoMealPlanned(recipe_ids) == recipe_ids = <<>> \/ recipe_ids[1] = <<>>

\* except KeyError in place of except Exception
CaughtKeyErrorOnly(exc) == exc \in {"'name'", "'ingredients'"}

\* except Exception: every failure of the store layer is an Exception
CaughtByExcept(exc) ==
    exc \in {"store unavailable", "'NoneType' object has no attribute 'split'",
             "'name'", "'ingredients'"}

\* a break in the else branch of the recipe loop
AfterMissingBreak(ids, i) == Len(ids) + 1

\* the recipe loop goes on with the next id after one that is not found
AfterMissing(ids, i) == i + 1

LogEntry(level, text, arg) == [level |-> level, text |-> text, arg |-> arg]

\* the lines one recipe adds to the message
RecipeBlock(recipe_data) ==
    <<<<"<U+1F4CC> ", recipe_data.name>>, <<"Ingredients:">>>>
    \o [k \in 1..Len(recipe_data.ingredients) |->
           <<"<U+2022> ", recipe_data.ingredients[k]>>]
    \o <<<<>>>>

\* for recipe_id in recipe_ids: ..., from the i-th id on
RECURSIVE RecipeLoop(_, _, _, _)
RecipeLoop(ids, i, st, acc) ==
    IF i > Len(ids) THEN acc
    ELSE
        LET recipe_id == ids[i]
            recipe    == RecipeGet(st, recipe_id)
            got       == [acc EXCEPT !.fetched = Append(@, recipe_id)]
        IN  IF recipe.st = "raise"
            THEN [got EXCEPT !.exc = "store unavailable"]
            ELSE IF recipe.st = "absent"
            THEN RecipeLoop(ids, AfterMissing(ids, i), st,
                     [got EXCEPT !.logs =
                         Append(@, LogEntry("WARNING", "Recipe not found", recipe_id))])
            ELSE IF ~recipe.hasName
            THEN [got EXCEPT !.exc = "'name'"]
            ELSE IF ~recipe.hasIngredients
            THEN [got EXCEPT !.exc = "'ingredients'",
                             !.message = Append(@, <<"<U+1F4CC> ", recipe.name>>)]
            ELSE RecipeLoop(ids, i + 1, st,
                     [got EXCEPT !.message = @ \o RecipeBlock(recipe)])

\* str.strip() of a message: the empty lines at its two ends go
RECURSIVE Strip(_)
Strip(lines) ==
    IF lines = <<>> THEN lines
    ELSE IF lines[Len(lines)] = <<>> THEN Strip(SubSeq(lines, 1, Len(lines) - 1))
    ELSE IF lines[1] = <<>> THEN Strip(SubSeq(lines, 2, Len(lines)))
    ELSE lines

NoMealMessage(day_of_week, date_str) ==
    <<<<"No meal planned for ", day_of_week, ", ">> \o date_str>>

ErrorMessage(exc) == <<<<"Error getting meal information: ", exc>>>>

\* the except clause of get_today_meal
MealExcept(acc, exc) ==
    IF CaughtByExcept(exc)
    THEN [called |-> TRUE, raised |-> FALSE, ret |-> ErrorMessage(exc),
          logs |-> Append(acc.logs,
                      LogEntry("ERROR", "Error getting meal information: ", <<exc>>)),
          planKey |-> acc.planKey, fetched |-> acc.fetched, exc |-> exc]
    ELSE [called |-> TRUE, raised |-> TRUE, ret |-> <<>>, logs |-> acc.logs,
          planKey |-> acc.planKey, fetched |-> acc.fetched, exc |-> exc]

MealReturn(acc, ret) ==
    [called |-> TRUE, raised |-> FALSE, ret |-> ret, logs |-> acc.logs,
     planKey |-> acc.planKey, fetched |-> acc.fetched, exc |-> "none"]

get_today_meal(in) ==
    LET today       == in.today
        day_of_week == FormatDayName(today)
        date_str    == FormatDate(today)
        week_range  == get_week_range(today)
        acc0        == [message |-> <<>>, fetched |-> <<>>, logs |-> <<>>,
                        planKey |-> week_range, exc |-> "none"]
    IN  IF in.plan = "raise"
        THEN MealExcept(acc0, "store unavailable")
        ELSE IF in.plan = "absent"
        THEN MealReturn([acc0 EXCEPT !.logs =
                            <<LogEntry("INFO", "No meal plan found for ", week_range)>>],
                        NoMealMessage(day_of_week, date_str))
        ELSE IF in.entryKind = "nonstring"
        THEN MealExcept(acc0, "'NoneType' object has no attribute 'split'")
        ELSE
            LET recipe_ids == Split(IF in.entryKind = "missing" THEN <<>> ELSE in.entry)
            IN  IF NoMealPlanned(recipe_ids)
                THEN MealReturn([acc0 EXCEPT !.logs =
                                    <<LogEntry("INFO", "No meal planned for ",
                                               <<day_of_week, ", ">> \o date_str)>>],
                                NoMealMessage(day_of_week, date_str))
                ELSE
                    LET header == <<"<U+1F37D><U+FE0F> Today's Meal (", day_of_week, ", ">>
                                  \o date_str \o <<"):">>
                        acc    == RecipeLoop(recipe_ids, 1, in,
                                      [acc0 EXCEPT !.message = <<header, <<>>>>])
                    IN  IF acc.exc # "none"
                        THEN MealExcept(acc, acc.exc)
                        ELSE MealReturn(acc, Strip(acc.message))

MealDateRange ==
    {FromOrdinal(o) : o \in ToOrdinal(StartDate)..(ToOrdinal(StartDate) + MealDates - 1)}

NoStore == [plan |-> "absent", entryKind |-> "missing", entry |-> <<>>,
            a |-> "absent", b |-> "absent", empty |-> "absent"]

\* what the store may answer; fields no fetch reads are left at rest
StoreAnswers ==
    {[NoStore EXCEPT !.plan = p] : p \in {"raise", "absent"}}
    \cup {[NoStore EXCEPT !.plan = "present", !.entryKind = k] : k \in {"missing", "nonstring"}}
    \cup {[plan |-> "present", entryKind |-> "string", entry |-> e,
           a |-> ra, b |-> rb, empty |-> re] :
             e \in Entries,
             ra \in {"raise", "absent", "ok", "noname", "noingredients"},
             rb \in {"raise", "absent", "ok", "noitems"},
             re \in {"raise", "absent"}}

WithToday(st, d) ==
    [today |-> d, plan |-> st.plan, entryKind |-> st.entryKind, entry |-> st.entry,
     a |-> st.a, b |-> st.b, empty |-> st.empty]

NotCalled == [called |-> FALSE, raised |-> FALSE, ret |-> <<>>, logs |-> <<>>,
              planKey |-> <<>>, fetched |-> <<>>, exc |-> "none"]

InitMeal ==
    /\ mealIn \in {WithToday(st, d) : st \in StoreAnswers, d \in MealDateRange}
    /\ mealOut = NotCalled
    /\ IdleWeek
    /\ IdleProc

\* one call get_today_meal()
CallGetTodayMeal ==
    /\ ~mealOut.called
    /\ mealOut' = get_today_meal(mealIn)
    /\ UNCHANGED <<mealIn, weekVars, procVars>>

NextMeal == CallGetTodayMeal

SpecMeal == InitMeal /\ [][NextMeal]_vars

(***************************************************************************)
(* C1, C8, C9, C10: get_today_meal                                         *)
(***************************************************************************)
Populated(in) ==
    /\ in.plan = "present"
    /\ in.entryKind = "string"
    /\ in.entry # <<>>
    /\ in.entry[1] # ","

\* the store answers the fetch of this recipe, or the read of its 'name' or
\* 'ingredients', with a failure
RecipeFails(in, id) ==
    LET r == RecipeGet(in, id)
    IN  r.st = "raise" \/ (r.st = "exists" /\ ~(r.hasName /\ r.hasIngredients))

\* the store layer fails at a step get_today_meal takes
FailureInjected(in) ==
    \/ in.plan = "raise"
    \/ in.plan = "present" /\ in.entryKind = "nonstring"
    \/ Populated(in) /\ \E k \in 1..Len(Split(in.entry)) : RecipeFails(in, Split(in.entry)[k])

\* C1: get_today_meal never raises outward and always returns a string; when
\* the store layer fails at any step (the meal-plan fetch, the read of its
\* fields, a recipe fetch, the read of a recipe's 'name' or 'ingredients') the
\* string returned begins with "Error getting meal information:".
C1_NeverRaises ==
    mealOut.called =>
        /\ ~mealOut.raised
        /\ mealOut.ret # <<>>
        /\ mealOut.ret[1] # <<>>
        /\ (FailureInjected(mealIn) =>
               /\ Len(mealOut.ret) = 1
               /\ mealOut.ret[1][1] = "Error getting meal information: ")

\* the second recipe of "b,a" has no 'ingredients'
C1_Witness ==
    /\ mealOut.called
    /\ mealIn.entry = <<"b", ",", "a">>
    /\ mealIn.a = "noingredients"
    /\ mealIn.b = "ok"
    /\ mealOut.fetched = <<<<"b">>, <<"a">>>>
    /\ mealOut.ret = <<<<"Error getting meal information: ", "'ingredients'">>>>

\* C8: with the week's document absent, or present with an empty or missing
\* entry for the weekday, get_today_meal returns exactly
\* "No meal planned for {weekday}, {date}" and fetches no recipe.
C8_NoMealPlanned ==
    (/\ mealOut.called
     /\ \/ mealIn.plan = "absent"
        \/ mealIn.plan = "present" /\ mealIn.entryKind = "missing"
        \/ mealIn.plan = "present" /\ mealIn.entryKind = "string" /\ mealIn.entry = <<>>)
    =>
        /\ ~mealOut.raised
        /\ mealOut.fetched = <<>>
        /\ mealOut.ret = <<<<"No meal planned for ", FormatDayName(mealIn.today), ", ">>
                           \o FormatDate(mealIn.today)>>
        /\ (mealIn.today = StartDate =>
               mealOut.ret = <<<<"No meal planned for ", "Wednesday", ", ",
                                 "March", " ", "12", ", ", "2025">>>>)

\* the document is there and its entry for the weekday is the empty string
C8_Witness ==
    /\ mealOut.called
    /\ mealIn.plan = "present"
    /\ mealIn.entryKind = "string"
    /\ mealIn.entry = <<>>
    /\ mealIn.today = StartDate
    /\ mealOut.fetched = <<>>
    /\ mealOut.ret = <<<<"No meal planned for ", "Wednesday", ", ",
                         "March", " ", "12", ", ", "2025">>>>

\* the recipe blocks of a message: each line with the pin opens a block, each
\* bullet line adds an ingredient to the block that is open
RECURSIVE ParseBlocks(_, _, _)
ParseBlocks(lines, i, blocks) ==
    IF i > Len(lines) THEN blocks
    ELSE IF lines[i] # <<>> /\ lines[i][1] = "<U+1F4CC> "
    THEN ParseBlocks(lines, i + 1,
             Append(blocks, [name |-> lines[i][2], ingredients |-> <<>>]))
    ELSE IF lines[i] # <<>> /\ lines[i][1] = "<U+2022> " /\ blocks # <<>>
    THEN ParseBlocks(lines, i + 1,
             [blocks EXCEPT ![Len(blocks)].ingredients = Append(@, lines[i][2])])
    ELSE ParseBlocks(lines, i + 1, blocks)

\* C9: for a populated entry of N comma-separated ids (no store failure), the
\* message is the header followed by exactly one block per id that resolves,
\* in the order of the ids, each with the recipe's name and all its ingredients
\* in order; every id is fetched, and each id that does not resolve is logged
\* with a warning and skipped (N blocks less one per unresolved id).
C9_RecipeBlocks ==
    (mealOut.called /\ Populated(mealIn) /\ ~FailureInjected(mealIn)) =>
        LET ids         == Split(mealIn.entry)
            Resolves(x) == RecipeGet(mealIn, x).st = "exists"
            Missing(x)  == ~Resolves(x)
            IsWarning(l) == l.level = "WARNING"
            found       == SelectSeq(ids, Resolves)
            missing     == SelectSeq(ids, Missing)
            blocks      == ParseBlocks(mealOut.ret, 1, <<>>)
        IN  /\ ~mealOut.raised
            /\ mealOut.exc = "none"
            /\ mealOut.ret[1] = <<"<U+1F37D><U+FE0F> Today's Meal (",
                                  FormatDayName(mealIn.today), ", ">>
                                 \o FormatDate(mealIn.today) \o <<"):">>
            /\ Len(blocks) = Len(found)
            /\ Len(blocks) = Len(ids) - Len(missing)
            /\ \A k \in 1..Len(found) :
                   /\ blocks[k].name = RecipeGet(mealIn, found[k]).name
                   /\ blocks[k].ingredients = RecipeGet(mealIn, found[k]).ingredients
            /\ mealOut.fetched = ids
            /\ SelectSeq(mealOut.logs, IsWarning)
                   = [k \in 1..Len(missing) |->
                         LogEntry("WARNING", "Recipe not found", missing[k])]

\* Wednesday: "a,b" with a = Oatmeal (oats, milk) and b missing: the header,
\* one block for Oatmeal with both ingredients, nothing for b
C9_Witness ==
    /\ mealOut.called
    /\ mealIn.today = StartDate
    /\ mealIn.entry = <<"a", ",", "b">>
    /\ mealIn.b = "absent"
    /\ mealOut.planKey = <<"March", " ", "10", ", ", "2025", " - ",
                           "March", " ", "16", ", ", "2025">>
    /\ mealOut.ret = << <<"<U+1F37D><U+FE0F> Today's Meal (", "Wednesday", ", ",
                          "March", " ", "12", ", ", "2025", "):">>,
                        <<>>,
                        <<"<U+1F4CC> ", "Oatmeal">>,
                        <<"Ingredients:">>,
                        <<"<U+2022> ", "oats">>,
                        <<"<U+2022> ", "milk">> >>
    /\ mealOut.logs = <<LogEntry("WARNING", "Recipe not found", <<"b">>)>>

\* C10: for an entry whose first id is not empty, no recipe is fetched with
\* an empty id, and (no store failure) the ids fetched are the non-empty ids
\* in the order given.
C10_NoEmptyIdFetched ==
    (mealOut.called /\ Populated(mealIn)) =>
        LET NonEmpty(x) == x # <<>>
        IN  /\ \A k \in 1..Len(mealOut.fetched) : mealOut.fetched[k] # <<>>
            /\ (mealOut.exc = "none" =>
                   mealOut.fetched = SelectSeq(Split(mealIn.entry), NonEmpty))

(***************************************************************************)
(* send_telegram_message                                                   *)
(*                                                                         *)
(* One call is given by what the bot API does: h.get is the answer to      *)
(* getUpdates ("network_error", "non2xx": an error body without "result",  *)
(* "empty": an empty "result", "ok") and h.post the answer to sendMessage  *)
(* ("network_error", "non2xx_json", "non2xx_nonjson", "ok"; "none" when    *)
(* the call does not get that far).                                        *)
(***************************************************************************)
HttpAnswers(tokenOk) ==
    {[get |-> g, post |-> "none"] :
        g \in IF tokenOk THEN {"network_error", "non2xx", "empty"}
              ELSE {"network_error", "non2xx"}}
    \cup (IF tokenOk
          THEN {[get |-> "ok", post |-> q] :
                   q \in {"network_error", "non2xx_json", "non2xx_nonjson", "ok"}}
          ELSE {})

get_real_chat_id(h) ==
    IF h.get = "network_error"
    THEN [raised |-> TRUE, exc |-> "ConnectionError"]
    ELSE IF h.get \in {"non2xx", "empty"}
    THEN [raised |-> TRUE, exc |-> "<U+274C> No chat ID found. Make sure you've messaged your bot."]
    ELSE [raised |-> FALSE, exc |-> "none"]

send_telegram_message(message, h) ==
    LET chat_id == get_real_chat_id(h)
        call    == [text |-> message, http |-> h, raised |-> FALSE, exc |-> "none",
                    requests |-> <<"getUpdates">>]
    IN  IF chat_id.raised
        THEN [call EXCEPT !.raised = TRUE, !.exc = chat_id.exc]
        ELSE IF h.post = "network_error"
        THEN [call EXCEPT !.raised = TRUE, !.exc = "ConnectionError",
                          !.requests = <<"getUpdates", "sendMessage">>]
        ELSE IF h.post = "non2xx_nonjson"
        THEN [call EXCEPT !.raised = TRUE, !.exc = "JSONDecodeError",
                          !.requests = <<"getUpdates", "sendMessage">>]
        ELSE [call EXCEPT !.requests = <<"getUpdates", "sendMessage">>]

(***************************************************************************)
(* send_daily_meal                                                         *)
(***************************************************************************)
\* no try around the second send
SecondaryNotCaught(exc) == FALSE

\* the bare except around the second send
SecondaryCaught(exc) == TRUE

\* f"<U+274C> {error_msg}"
ErrorNotification(error_msg) == <<<<"<U+274C> ">> \o error_msg>>

send_daily_meal(meal, h1, h2) ==
    LET first  == send_telegram_message(meal.ret, h1)
        sent1  == IF meal.raised THEN <<>> ELSE <<first>>
        failed == IF meal.raised THEN meal.exc ELSE first.exc
    IN  IF ~meal.raised /\ ~first.raised
        THEN [ran |-> TRUE, raised |-> FALSE, sends |-> sent1,
              logs |-> Append(meal.logs,
                          LogEntry("INFO", "Successfully sent daily meal notification", <<>>))]
        ELSE
            LET error_msg == <<"Error sending daily meal notification: ", failed>>
                logs1     == Append(meal.logs, LogEntry("ERROR", error_msg[1], <<failed>>))
                second    == send_telegram_message(ErrorNotification(error_msg), h2)
            IN  IF ~second.raised
                THEN [ran |-> TRUE, raised |-> FALSE, sends |-> Append(sent1, second),
                      logs |-> logs1]
                ELSE IF SecondaryCaught(second.exc)
                THEN [ran |-> TRUE, raised |-> FALSE, sends |-> Append(sent1, second),
                      logs |-> Append(logs1,
                                  LogEntry("ERROR", "Failed to send error notification", <<>>))]
                ELSE [ran |-> TRUE, raised |-> TRUE, sends |-> Append(sent1, second),
                      logs |-> logs1]

(***************************************************************************)
(* The scheduled job: schedule.every().day.at("12:30").do(send_daily_meal) *)
(***************************************************************************)
MinutesPerDay == 24 * 60

\* at("12:30")
TriggerTime == 12 * 60 + 30

\* time.sleep(60)
SleepMinutes == 1

\* the clock stops here
Horizon == MaxDays * MinutesPerDay

DayOf(t) == t \div MinutesPerDay
TimeOfDay(t) == t % MinutesPerDay
Min(x, y) == IF x < y THEN x ELSE y

\* every().hour
JobPeriodHour == MinutesPerDay \div 24

\* every().day
JobPeriod == MinutesPerDay

\* Job._schedule_next_run at time t: a period from now, at 12:30 of that day;
\* a day earlier when the job never ran, or ran more than a period before
\* that, and 12:30 is still to come today
ScheduleNextRun(t, last) ==
    LET next0 == DayOf(t + JobPeriod) * MinutesPerDay + TriggerTime
    IN  IF (last = -1 \/ next0 - last > JobPeriod) /\ TriggerTime > TimeOfDay(t)
        THEN next0 - MinutesPerDay
        ELSE next0

\* datetime.now(pst) at time t
Today(t) == PlusDays(StartDate, DayOf(t))

\* what the store answers the job
JobStoreAnswers ==
    {[NoStore EXCEPT !.plan = q] : q \in {"raise", "absent"}}
    \cup {[NoStore EXCEPT !.plan = "present", !.entryKind = k] : k \in {"missing", "nonstring"}}
    \cup {[NoStore EXCEPT !.plan = "present", !.entryKind = "string", !.entry = e, !.a = ra] :
             e \in {<<>>, <<"a">>}, ra \in {"absent", "ok"}}

\* get_today_meal() on each day of the run, for each answer of the store
JobMeals ==
    [st \in JobStoreAnswers, d \in 0..MaxDays |->
        get_today_meal(WithToday(st, Today(d * MinutesPerDay)))]

\* the minutes one send_daily_meal may take: its execution is sub-minute, so
\* the clock shows the same minute or the next one when it returns
JobMinutes == {0, 1}

NoJob == [ran |-> FALSE, raised |-> FALSE]

(***************************************************************************)
(* The process                                                             *)
(***************************************************************************)
Init ==
    /\ pc = "boot"
    /\ firebaseEnv \in {"absent", "malformed", "badcred", "valid"}
    /\ tokenEnv \in {"absent", "malformed", "valid"}
    /\ now \in {TriggerTime - 1, TriggerTime}
    /\ next_run = -1
    /\ last_run = -1
    /\ registered = -1
    /\ runs = <<>>
    /\ lastCheck = -1
    /\ sends = <<>>
    /\ log = <<>>
    /\ job = NoJob
    /\ IdleWeek
    /\ IdleMeal

\* lines 26-29: b64decode and json.loads of FIREBASE_SERVICE_ACCOUNT_BASE64;
\* an exception here ends the process
LoadConfig ==
    /\ pc = "boot"
    /\ pc' = IF firebaseEnv \in {"absent", "malformed"} THEN "aborted" ELSE "firebase"
    /\ UNCHANGED <<firebaseEnv, tokenEnv, now, next_run, last_run, registered, runs,
                   lastCheck, sends, log, job, weekVars, mealVars>>

\* lines 32-39: the Firebase client; a failure is logged and raised again
InitFirebase ==
    /\ pc = "firebase"
    /\ IF firebaseEnv = "badcred"
       THEN /\ pc' = "aborted"
            /\ log' = <<LogEntry("ERROR", "Failed to initialize Firebase: ", <<"ValueError">>)>>
       ELSE /\ pc' = "main"
            /\ log' = <<LogEntry("INFO", "Firebase initialized successfully", <<>>)>>
    /\ UNCHANGED <<firebaseEnv, tokenEnv, now, next_run, last_run, registered, runs,
                   lastCheck, sends, job, weekVars, mealVars>>

\* main(), lines 121-133: the job is registered and the startup message sent
MainStart ==
    /\ pc = "main"
    /\ registered' = now
    /\ next_run' = ScheduleNextRun(now, -1)
    /\ \E h \in HttpAnswers(tokenEnv = "valid") :
          LET m == send_telegram_message(
                       <<<<"<U+2705> Daily meal notifier started successfully">>>>, h)
          IN  /\ sends' = <<m>>
              /\ log' = IF m.raised
                        THEN <<LogEntry("ERROR", "Failed to send startup message: ", <<m.exc>>)>>
                        ELSE <<LogEntry("INFO", "Daily meal notifier started successfully", <<>>)>>
    /\ pc' = "loop"
    /\ UNCHANGED <<firebaseEnv, tokenEnv, now, last_run, runs, lastCheck, job,
                   weekVars, mealVars>>

\* schedule.run_pending(), line 138: the job is due when now >= next_run
RunPending ==
    /\ pc = "loop"
    /\ lastCheck' = now
    /\ sends' = <<>>
    /\ log' = <<>>
    /\ job' = NoJob
    /\ IF now >= next_run
       THEN /\ pc' = "job"
            /\ runs' = Append(runs, [start |-> now, end |-> -1])
       ELSE /\ pc' = "sleep"
            /\ UNCHANGED runs
    /\ UNCHANGED <<firebaseEnv, tokenEnv, now, next_run, last_run, registered,
                   weekVars, mealVars>>

\* Job.run: send_daily_meal(), then last_run and next_run are set; when the
\* job raises they are not, and the loop's except clause (lines 140-141) logs
RunJob ==
    /\ pc = "job"
    /\ \E st \in JobStoreAnswers, h1 \in HttpAnswers(tokenEnv = "valid"),
          h2 \in HttpAnswers(tokenEnv = "valid"), dur \in JobMinutes :
          LET meal == JobMeals[st, DayOf(now)]
              r    == send_daily_meal(meal, h1, h2)
              t    == Min(now + dur, Horizon)
          IN  /\ now' = t
              /\ sends' = r.sends
              /\ job' = [ran |-> TRUE, raised |-> r.raised]
              /\ runs' = [runs EXCEPT ![Len(runs)].end = t]
              /\ IF r.raised
                 THEN /\ log' = Append(r.logs,
                                    LogEntry("ERROR", "Error in scheduler loop: ", <<"raised">>))
                      /\ UNCHANGED <<next_run, last_run>>
                 ELSE /\ log' = r.logs
                      /\ last_run' = t
                      /\ next_run' = ScheduleNextRun(t, t)
    /\ pc' = "sleep"
    /\ UNCHANGED <<firebaseEnv, tokenEnv, registered, lastCheck, weekVars, mealVars>>

\* the loop without while True
SleepOnce ==
    /\ pc = "sleep"
    /\ now' = Min(now + SleepMinutes, Horizon)
    /\ pc' = "exited"
    /\ UNCHANGED <<firebaseEnv, tokenEnv, next_run, last_run, registered, runs,
                   lastCheck, sends, log, job, weekVars, mealVars>>

\* time.sleep(60), line 139 (line 142 after an error), and the loop goes round
Sleep ==
    /\ pc = "sleep"
    /\ now' = Min(now + SleepMinutes, Horizon)
    /\ pc' = "loop"
    /\ UNCHANGED <<firebaseEnv, tokenEnv, next_run, last_run, registered, runs,
                   lastCheck, sends, log, job, weekVars, mealVars>>

Next ==
    \/ LoadConfig
    \/ InitFirebase
    \/ MainStart
    \/ RunPending
    \/ RunJob
    \/ Sleep

Spec == Init /\ [][Next]_vars

\* one thread that keeps running, and calls that return or raise: a step that
\* can be taken is taken
FairSpec == Spec /\ WF_vars(Next)

(***************************************************************************)
(* C2, C3, C4, C5, C6: the process                                         *)
(***************************************************************************)
IsSendError(l) ==
    l.level = "ERROR" /\ l.text = "Error sending daily meal notification: "

IsLoopError(l) == l.level = "ERROR" /\ l.text = "Error in scheduler loop: "

C3_SendFailureRaises ==
    \A k \in 1..Len(sends) :
        /\ (sends[k].http.get # "ok" \/ sends[k].http.post # "ok") => sends[k].raised
        /\ sends[k].requests \in {<<"getUpdates">>, <<"getUpdates", "sendMessage">>}

InLoop == pc \in {"loop", "job", "sleep"}

C5_FailFast ==
    (firebaseEnv # "valid" \/ tokenEnv # "valid") =>
        /\ ~InLoop
        /\ sends = <<>>

=============================================================================
